---- MODULE Spec2Model ----
(***************************************************************************)
(* Tree Cover Change Dashboard (app.py).                                   *)
(*                                                                         *)
(* The module models the start-up of the dashboard (dataset load with its  *)
(* except-branch fallback, construction of the layout), the update_graphs  *)
(* callback and the figure builder make_plot.                              *)
(*                                                                         *)
(* Numbers.  tree_cover_change values are finite numbers; the inputs used  *)
(* here are whole percentage points (integers).  A marker size is kept as  *)
(* an exact fraction [num, den] because the code halves the change and     *)
(* uses the literal 0.1.  Halving is exact in binary floating point.       *)
(*                                                                         *)
(* Strings.  Python orders str values by code point; Codes gives the code  *)
(* points of the strings the program compares and StrLess is Python's <.   *)
(*                                                                         *)
(* Geometry.  The reprojection to EPSG:4326 (lines 183-185) and the map    *)
(* centre (line 219) are carried by no definition here: rows are           *)
(* identified by their DataFrame index label idx, which filtering and      *)
(* sorting preserve.                                                       *)
(***************************************************************************)
EXTENDS Integers, Sequences, FiniteSets, TLC

VARIABLES
    pc,           \* "load" | "layout" | "serving" | "crashed"; "call" | "returned"
    file,         \* what data/results_gdf.pkl holds on disk
    results_gdf,  \* module global: the loaded DataFrame
    cities,       \* module global: the selectable city list
    city1,        \* value of dropdown city1
    city2,        \* value of dropdown city2
    mode,         \* value of radio items view-mode
    graph1,       \* figure of dcc.Graph graph1
    graph2,       \* figure of dcc.Graph graph2
    error,        \* exception raised by the last step, or "none"
    invocations,  \* number of update_graphs invocations so far
    calls         \* make_plot calls of the last update_graphs invocation

vars == <<pc, file, results_gdf, cities, city1, city2, mode, graph1, graph2,
          error, invocations, calls>>

-----------------------------------------------------------------------------
(* Bounds of the model *)

MaxRows == 3
BigRows == 81
MaxInvocations == 3

(* Program constant: the number of grid columns *)
n_cols == 80

-----------------------------------------------------------------------------
(* Values *)

NoneValue == "<None>"          \* Python None (a cleared dropdown)
NoFigure == [kind |-> "none", title |-> "", traces |-> <<>>]  \* no figure yet
Unbound == [columns |-> {"<unbound>"}, rows |-> <<>>]

Abs(t) == IF t < 0 THEN -t ELSE t

Locations == {"Accra", "Lagos"}
TccValues == {-5, -1, 0, 3}

\* Code points of the strings the program compares.
Codes(s) ==
    CASE s = "Accra" -> <<65, 99, 99, 114, 97>>
      [] s = "Lagos" -> <<76, 97, 103, 111, 115>>
      [] s = "0" -> <<48>>
      [] s = "%{customdata[0]}" ->
            <<37, 123, 99, 117, 115, 116, 111, 109, 100, 97, 116, 97, 91, 48, 93, 125>>

\* Python's a < b on str, given the code points of a and b.
StrLess(a, b) ==
    \E k \in 1..(Len(a) + 1) :
        /\ \A j \in 1..(k - 1) : j <= Len(b) /\ a[j] = b[j]
        /\ \/ k = Len(a) + 1 /\ Len(b) >= k
           \/ k <= Len(a) /\ k <= Len(b) /\ a[k] < b[k]

-----------------------------------------------------------------------------
(* The dataset *)

DataColumns == {"location", "point_geom", "tree_cover_change", "tree_cover_2002",
                "tree_cover_2022", "color", "markersize"}

\* Colour and marker size are assigned per record upstream.
ColorOf(t) == IF t < 0 THEN "#d73027" ELSE IF t > 0 THEN "#1a9850" ELSE "#ffffbf"

Row(i, loc, t) ==
    [idx |-> i, location |-> loc, tree_cover_change |-> t,
     color |-> ColorOf(t), markersize |-> Abs(t) + 4]

Frame(f) == [columns |-> DataColumns,
             rows |-> [i \in 1..Len(f) |-> Row(i, f[i][1], f[i][2])]]

SmallFrames ==
    {Frame(f) : f \in UNION {[1..n -> Locations \X TccValues] : n \in 0..MaxRows}}

\* A city with more records than one grid line holds, all changes distinct,
\* followed by one record of a second city.
BigFrame ==
    Frame([i \in 1..(BigRows + 1) |->
              IF i <= BigRows THEN <<"Lagos", ((i * 37) % 83) - 41>>
                              ELSE <<"Accra", 3>>])

Datasets == SmallFrames \cup {BigFrame}

\* pd.DataFrame(): no columns, no rows.
EmptyFrame == [columns |-> {}, rows |-> <<>>]

\* What the pickle on disk is: a readable dataset, or missing, or corrupt.
MissingFile == [status |-> "missing", frame |-> EmptyFrame]
CorruptFile == [status |-> "corrupt", frame |-> EmptyFrame]
Files == {[status |-> "ok", frame |-> d] : d \in Datasets} \cup {MissingFile, CorruptFile}
FallbackCities == <<"No data available">>

\* results_gdf["location"].unique()
unique(df) == {df.rows[i].location : i \in 1..Len(df.rows)}

\* sorted(...) of distinct strings
RECURSIVE sorted(_)
sorted(S) ==
    IF S = {} THEN <<>>
    ELSE LET m == CHOOSE x \in S : \A y \in S \ {x} : StrLess(Codes(x), Codes(y))
         IN <<m>> \o sorted(S \ {m})

\* pd.read_pickle raises on a missing or corrupt file.
ReadFails(f) == f.status # "ok"

-----------------------------------------------------------------------------
(* make_plot *)

\* Mutant of Filter: the mask is dropped and every row is kept.
Filter_NoMask(df, city) == df.rows

\* df[df["location"] == city]: the rows of that city, in dataset order.
Filter(df, city) == SelectSeq(df.rows, LAMBDA r : r.location = city)

\* Mutant of IsMapMode: only 'grid' takes the grid branch.
IsMapMode_UnlessGrid(m) == m # "grid"

\* The mode test of line 187; every other mode takes the else branch.
IsMapMode(m) == m = "map"

\* The label the map hovertemplate is built with (line 206).  The conditional
\* expression is evaluated once, by Python, on two string literals.
MapHoverLabel ==
    IF StrLess(Codes("%{customdata[0]}"), Codes("0")) THEN "Decrease"
    ELSE IF StrLess(Codes("0"), Codes("%{customdata[0]}")) THEN "Increase"
    ELSE "No Change"

\* Map mode: one Scattermapbox trace holding every filtered row.
MapFigure(data, city) ==
    [kind |-> "Scattermapbox", title |-> city,
     traces |-> << [name |-> "Points",
                    label |-> MapHoverLabel,
                    points |-> [k \in 1..Len(data) |->
                        [idx |-> data[k].idx,
                         location |-> data[k].location,
                         tree_cover_change |-> data[k].tree_cover_change,
                         color |-> data[k].color,
                         size |-> [num |-> data[k].markersize, den |-> 1]]]] >>]

\* The rows of data whose tree_cover_change is v, in the order of data.
KeyRows(data, v) == SelectSeq(data, LAMBDA r : r.tree_cover_change = v)

\* Every order in which the rows of s can be arranged.
RECURSIVE Arrangements(_)
Arrangements(s) ==
    IF s = <<>> THEN {<<>>}
    ELSE LET r == s[Len(s)]
         IN UNION {{SubSeq(a, 1, k - 1) \o <<r>> \o SubSeq(a, k, Len(a)) :
                       k \in 1..(Len(a) + 1)} :
                   a \in Arrangements(SubSeq(s, 1, Len(s) - 1))}

\* The ascending arrangements of the rows whose tree_cover_change is in lo..hi:
\* rows of a smaller change come first, rows of equal change in any order.
RECURSIVE SortedRange(_, _, _)
SortedRange(data, lo, hi) ==
    IF lo = hi THEN Arrangements(KeyRows(data, lo))
    ELSE LET mid == (lo + hi) \div 2
         IN {a \o b : a \in SortedRange(data, lo, mid),
                      b \in SortedRange(data, mid + 1, hi)}

\* Mutant of sort_values: the rows are left in dataset order.
sort_values_Unsorted(data) == {data}

\* data.sort_values(by="tree_cover_change"): the default kind is quicksort, which
\* is not stable, so every ascending arrangement of the rows is a possible result.
sort_values(data) ==
    IF data = <<>> THEN {<<>>}
    ELSE LET keys == {data[k].tree_cover_change : k \in 1..Len(data)}
             lo == CHOOSE v \in keys : \A w \in keys : v <= w
             hi == CHOOSE v \in keys : \A w \in keys : w <= v
         IN SortedRange(data, lo, hi)

\* Mutant of x_coord: the column does not wrap.
x_coord_NoWrap(i) == i

\* Lines 238-239, for the 0-based position i in sorted order.
x_coord(i) == i % n_cols
y_coord(i) == -(i \div n_cols)

\* Mutant of marker_size: line 241 is missing.
marker_size_NoFloor(t) == [num |-> Abs(t), den |-> 2]

\* Lines 240-241: abs(tree_cover_change) / 2, and 0.1 where the change is 0.
marker_size(t) == IF t = 0 THEN [num |-> 1, den |-> 10] ELSE [num |-> Abs(t), den |-> 2]

\* Mutant of GroupFilter: the Decrease mask is <= 0.
GroupFilter_ZeroIsDecrease(label, t) ==
    CASE label = "Decrease" -> t <= 0
      [] label = "Increase" -> t > 0
      [] label = "No Change" -> t = 0

\* The three masks of lines 246-248.
GroupFilter(label, t) ==
    CASE label = "Decrease" -> t < 0
      [] label = "Increase" -> t > 0
      [] label = "No Change" -> t = 0

\* The labels of the loop of lines 245-249, in its order.
Labels == <<"Decrease", "Increase", "No Change">>

\* Line 252.
GroupColor(label, r) == IF label # "No Change" THEN r.color ELSE "#E6E6E6"

\* The sorted rows with x_coord, y_coord and marker_size added (lines 238-241).
GridData(s) ==
    [k \in 1..Len(s) |->
        [idx |-> s[k].idx,
         location |-> s[k].location,
         tree_cover_change |-> s[k].tree_cover_change,
         color |-> s[k].color,
         size |-> marker_size(s[k].tree_cover_change),
         i |-> k - 1, x |-> x_coord(k - 1), y |-> y_coord(k - 1)]]

\* One Scatter trace of the loop of lines 245-274.
GridTrace(label, sub) ==
    [name |-> label, label |-> label,
     points |-> [k \in 1..Len(sub) |-> [sub[k] EXCEPT !.color = GroupColor(label, sub[k])]]]

\* Grid mode: one trace per non-empty group, in the order of the loop.
GridFigure(s, city) ==
    LET data == GridData(s)
        sub(l) == SelectSeq(data, LAMBDA p : GroupFilter(Labels[l], p.tree_cover_change))
        trace(l) == IF sub(l) = <<>> THEN <<>> ELSE <<GridTrace(Labels[l], sub(l))>>
    IN [kind |-> "Scatter", title |-> city,
        traces |-> trace(1) \o trace(2) \o trace(3)]

\* make_plot(df, city, mode): the set of possible outcomes, each either an
\* exception or a figure.
make_plot(df, city, m) ==
    IF "location" \notin df.columns
    THEN {[exc |-> "KeyError", fig |-> NoFigure]}
    ELSE LET data == Filter(df, city)
         IN IF IsMapMode(m)
            THEN {[exc |-> "none", fig |-> MapFigure(data, city)]}
            ELSE {[exc |-> "none", fig |-> GridFigure(s, city)] : s \in sort_values(data)}

\* Mutant of update_graphs: the second figure is built for city1 again.
update_graphs_SameCity(c1, c2, m) ==
    {IF r1.exc # "none"
     THEN [exc |-> r1.exc, fig1 |-> NoFigure, fig2 |-> NoFigure,
           calls |-> << <<c1, m>> >>]
     ELSE [exc |-> r2.exc, fig1 |-> r1.fig, fig2 |-> r2.fig,
           calls |-> << <<c1, m>>, <<c1, m>> >>] :
        r1 \in make_plot(results_gdf, c1, m), r2 \in make_plot(results_gdf, c1, m)}

\* update_graphs(city1, city2, mode) on the module global results_gdf.
update_graphs(c1, c2, m) ==
    {IF r1.exc # "none"
     THEN [exc |-> r1.exc, fig1 |-> NoFigure, fig2 |-> NoFigure,
           calls |-> << <<c1, m>> >>]
     ELSE [exc |-> r2.exc, fig1 |-> r1.fig, fig2 |-> r2.fig,
           calls |-> << <<c1, m>>, <<c2, m>> >>] :
        r1 \in make_plot(results_gdf, c1, m), r2 \in make_plot(results_gdf, c2, m)}


-----------------------------------------------------------------------------
(* The dashboard: start-up, layout, callback *)

Init ==
    /\ pc = "load"
    /\ file \in Files
    /\ results_gdf = Unbound
    /\ cities = <<>>
    /\ city1 = NoneValue
    /\ city2 = NoneValue
    /\ mode = NoneValue
    /\ graph1 = NoFigure
    /\ graph2 = NoFigure
    /\ error = "none"
    /\ invocations = 0
    /\ calls = <<>>

\* Lines 22-30: the try block and its except branch.
LoadData ==
    /\ pc = "load"
    /\ IF ReadFails(file)
       THEN /\ results_gdf' = EmptyFrame
            /\ cities' = FallbackCities
       ELSE /\ results_gdf' = file.frame
            /\ cities' = sorted(unique(file.frame))
    /\ pc' = "layout"
    /\ UNCHANGED <<file, city1, city2, mode, graph1, graph2, error, invocations, calls>>

\* Lines 114-166: the dropdown defaults are cities[0] and cities[1] (0-based), the
\* view mode defaults to 'map'.  Indexing past the end of the list raises
\* IndexError at module level, which ends the process.
BuildLayout ==
    /\ pc = "layout"
    /\ IF Len(cities) < 2
       THEN /\ pc' = "crashed"
            /\ error' = "IndexError"
            /\ UNCHANGED <<city1, city2, mode>>
       ELSE /\ pc' = "serving"
            /\ city1' = cities[1]
            /\ city2' = cities[2]
            /\ mode' = "map"
            /\ UNCHANGED error
    /\ UNCHANGED <<file, results_gdf, cities, graph1, graph2, invocations, calls>>

\* One invocation of the callback of lines 168-178 with the given input values.
\* The outputs are set when it returns; an exception leaves the graphs as they are.
Callback(c1, c2, m) ==
    \E out \in update_graphs(c1, c2, m) :
        /\ invocations' = invocations + 1
        /\ calls' = out.calls
        /\ error' = out.exc
        /\ IF out.exc = "none"
           THEN graph1' = out.fig1 /\ graph2' = out.fig2
           ELSE UNCHANGED <<graph1, graph2>>

\* What a dropdown can hold: one of its options, or nothing when cleared.
CityChoices == {cities[k] : k \in 1..Len(cities)} \cup {NoneValue}
ModeChoices == {"map", "grid"}

\* The page is opened: the callback runs once with the default values.
PageLoad ==
    /\ pc = "serving"
    /\ invocations = 0
    /\ Callback(city1, city2, mode)
    /\ UNCHANGED <<pc, file, results_gdf, cities, city1, city2, mode>>

SelectCity1(c) ==
    /\ pc = "serving"
    /\ invocations >= 1
    /\ invocations < MaxInvocations
    /\ c # city1
    /\ city1' = c
    /\ Callback(c, city2, mode)
    /\ UNCHANGED <<pc, file, results_gdf, cities, city2, mode>>

SelectCity2(c) ==
    /\ pc = "serving"
    /\ invocations >= 1
    /\ invocations < MaxInvocations
    /\ c # city2
    /\ city2' = c
    /\ Callback(city1, c, mode)
    /\ UNCHANGED <<pc, file, results_gdf, cities, city1, mode>>

SelectMode(m) ==
    /\ pc = "serving"
    /\ invocations >= 1
    /\ invocations < MaxInvocations
    /\ m # mode
    /\ mode' = m
    /\ Callback(city1, city2, m)
    /\ UNCHANGED <<pc, file, results_gdf, cities, city1, city2>>

Next ==
    \/ LoadData
    \/ BuildLayout
    \/ PageLoad
    \/ \E c \in CityChoices : SelectCity1(c)
    \/ \E c \in CityChoices : SelectCity2(c)
    \/ \E m \in ModeChoices : SelectMode(m)

Spec == Init /\ [][Next]_vars

-----------------------------------------------------------------------------
(* make_plot as a function: one call on inputs drawn from bounded sets.  The *)
(* call is make_plot(results_gdf, city1, mode) and graph1 receives its figure. *)

PlotFrames == Datasets \cup {EmptyFrame}
CityInputs == Locations \cup {"Nonexistent", NoneValue}
ModeInputs == {"map", "grid", "3d", NoneValue}

InitPlot ==
    /\ pc = "call"
    /\ file = MissingFile
    /\ results_gdf \in PlotFrames
    /\ cities = <<>>
    /\ city1 \in CityInputs
    /\ city2 = NoneValue
    /\ mode \in ModeInputs
    /\ graph1 = NoFigure
    /\ graph2 = NoFigure
    /\ error = "none"
    /\ invocations = 0
    /\ calls = <<>>

CallMakePlot ==
    /\ pc = "call"
    /\ \E r \in make_plot(results_gdf, city1, mode) :
          /\ graph1' = r.fig
          /\ error' = r.exc
    /\ pc' = "returned"
    /\ calls' = << <<city1, mode>> >>
    /\ UNCHANGED <<file, results_gdf, cities, city1, city2, mode, graph2, invocations>>

NextPlot == CallMakePlot

SpecPlot == InitPlot /\ [][NextPlot]_vars

-----------------------------------------------------------------------------
(* Properties *)

\* The points of a figure, each with the name and hover label of its trace.
Points(fig) ==
    UNION {{[p |-> fig.traces[t].points[k], group |-> fig.traces[t].name,
             hover |-> fig.traces[t].label] : k \in 1..Len(fig.traces[t].points)} :
           t \in DOMAIN fig.traces}

\* The number of points of a figure, counted over its traces.
NumPoints(fig) ==
    Cardinality(UNION {{<<t, k>> : k \in 1..Len(fig.traces[t].points)} :
                       t \in DOMAIN fig.traces})

\* The index labels of the dataset rows of a location.
RowsOf(df, loc) == {df.rows[k].idx : k \in {j \in 1..Len(df.rows) : df.rows[j].location = loc}}

Returned == pc = "returned" /\ error = "none"
ReturnedGrid == Returned /\ mode = "grid"
ReturnedMap == Returned /\ mode = "map"

SignLabel(t) == IF t < 0 THEN "Decrease" ELSE IF t > 0 THEN "Increase" ELSE "No Change"

\* C1: when loading the dataset fails, start-up completes with the empty dataset
\* and the sentinel city list, the layout is built and the process does not crash.
C1_LoadFailureStartsUp ==
    (ReadFails(file) /\ pc # "load") =>
        /\ results_gdf = EmptyFrame
        /\ cities = FallbackCities
        /\ pc # "crashed"

\* C2: make_plot on the empty fallback dataset, for every location and for the
\* modes map and grid, raises nothing and returns a figure with zero points.
C2_FallbackGivesEmptyFigure ==
    (pc = "returned" /\ results_gdf = EmptyFrame /\ mode \in {"map", "grid"}) =>
        /\ error = "none"
        /\ graph1 # NoFigure
        /\ NumPoints(graph1) = 0

\* C3 as stated: a view mode other than map and grid makes the call fail with
\* InvalidArgument and return no figure (stated for a dataset that has its columns).
C3_OtherModesRejected ==
    (pc = "returned" /\ "location" \in results_gdf.columns /\ mode \notin {"map", "grid"}) =>
        /\ error = "InvalidArgument"
        /\ graph1 = NoFigure

\* C3 as amended: make_plot rejects no view mode; on a dataset that has its columns
\* every mode other than map (grid or any other value) raises nothing and returns
\* the grid figure of that location, and map returns the map figure.
C3_OtherModesAreGrid ==
    (pc = "returned" /\ "location" \in results_gdf.columns) =>
        /\ error = "none"
        /\ mode = "map" => graph1.kind = "Scattermapbox"
        /\ mode # "map" =>
              /\ graph1.kind = "Scatter"
              /\ graph1 \in {r.fig : r \in make_plot(results_gdf, city1, "grid")}

C3_Witness ==
    /\ pc = "returned"
    /\ mode = "3d"
    /\ graph1.kind = "Scatter"
    /\ NumPoints(graph1) >= 2

\* C4: in map mode the hover label of every plotted point is given by the sign of
\* its tree_cover_change: Decrease below zero, Increase above, No Change at zero.
C4_MapLabelBySign ==
    ReturnedMap =>
        \A q \in Points(graph1) : q.hover = SignLabel(q.p.tree_cover_change)

\* C5: in grid mode the groups Decrease, Increase and No Change are pairwise
\* disjoint, every filtered record is in exactly one of them and no other record
\* is, and a record whose change is 0 is in No Change only.
C5_CategoryPartition ==
    ReturnedGrid =>
        LET G(l) == {q.p.idx : q \in {z \in Points(graph1) : z.group = l}}
        IN /\ \A q \in Points(graph1) : q.group \in {"Decrease", "Increase", "No Change"}
           /\ G("Decrease") \cap G("Increase") = {}
           /\ G("Decrease") \cap G("No Change") = {}
           /\ G("Increase") \cap G("No Change") = {}
           /\ G("Decrease") \cup G("Increase") \cup G("No Change") = RowsOf(results_gdf, city1)
           /\ NumPoints(graph1) = Cardinality(RowsOf(results_gdf, city1))
           /\ \A q \in Points(graph1) :
                 q.p.tree_cover_change = 0 => q.group = "No Change"

C5_Witness ==
    /\ ReturnedGrid
    /\ \A l \in {"Decrease", "Increase", "No Change"} :
          \E q \in Points(graph1) : q.group = l

\* C6 as stated: in grid mode the sequence indices ascend with tree_cover_change,
\* and records of equal change keep their relative dataset order.
C6_AscendingAndStable ==
    ReturnedGrid =>
        \A a, b \in Points(graph1) :
            /\ a.p.i < b.p.i => a.p.tree_cover_change <= b.p.tree_cover_change
            /\ (a.p.tree_cover_change = b.p.tree_cover_change /\ a.p.idx < b.p.idx)
                  => a.p.i < b.p.i

\* C6 as amended: in grid mode the sequence indices 0..n-1 are assigned in
\* ascending tree_cover_change order: index(a) < index(b) implies
\* change(a) <= change(b).  The order among records of equal change is not fixed.
C6_Ascending ==
    ReturnedGrid =>
        /\ {q.p.i : q \in Points(graph1)} = 0..(NumPoints(graph1) - 1)
        /\ \A a, b \in Points(graph1) :
              a.p.i < b.p.i => a.p.tree_cover_change <= b.p.tree_cover_change

C6_Witness ==
    /\ ReturnedGrid
    /\ \E k \in 1..(Len(results_gdf.rows) - 1) :
          /\ results_gdf.rows[k].location = city1
          /\ results_gdf.rows[k + 1].location = city1
          /\ results_gdf.rows[k].tree_cover_change > results_gdf.rows[k + 1].tree_cover_change
    /\ \E a, b \in Points(graph1) :
          a.p.idx > b.p.idx /\ a.p.i < b.p.i /\ a.p.tree_cover_change < b.p.tree_cover_change

\* C7: in grid mode the point of sequence index i lies at x = i mod 80 and
\* y = -floor(i / 80): i = x - 80 * y with 0 <= x < 80 and y <= 0.
C7_GridColumnWrap ==
    ReturnedGrid =>
        \A q \in Points(graph1) :
            /\ 0 <= q.p.x /\ q.p.x < 80
            /\ q.p.y <= 0
            /\ q.p.i = q.p.x - 80 * q.p.y

C7_Witness ==
    /\ ReturnedGrid
    /\ \E q \in Points(graph1) : q.p.y < 0 /\ q.p.x = 0
    /\ \E q \in Points(graph1) : q.p.y = 0 /\ q.p.x = 79

\* C8: in grid mode a point whose change is 0 has marker size exactly 0.1 and
\* every other point has marker size abs(change) / 2, which is positive.
C8_MarkerSize ==
    ReturnedGrid =>
        \A q \in Points(graph1) :
            /\ q.p.size.den > 0
            /\ q.p.tree_cover_change = 0 => q.p.size.num * 10 = q.p.size.den
            /\ q.p.tree_cover_change # 0 =>
                  /\ 2 * q.p.size.num = Abs(q.p.tree_cover_change) * q.p.size.den
                  /\ q.p.size.num > 0

C8_Witness ==
    /\ ReturnedGrid
    /\ \E q \in Points(graph1) : q.p.tree_cover_change = 0
    /\ \E q \in Points(graph1) : q.p.tree_cover_change = -5

\* C9: every change of the city-1, city-2 or view-mode selector triggers exactly
\* one update_graphs invocation, which calls make_plot exactly twice, for city 1
\* and then for city 2, both with the selected mode; the first figure returned is
\* city 1's and the second is city 2's.
C9_OneInvocationTwoPlots ==
    [][(pc = "serving" /\ invocations >= 1 /\
        (city1' # city1 \/ city2' # city2 \/ mode' # mode)) =>
           /\ invocations' = invocations + 1
           /\ calls' = << <<city1', mode'>>, <<city2', mode'>> >>
           /\ error' = "none"
           /\ graph1'.title = city1'
           /\ graph2'.title = city2'
           /\ graph1'.kind = (IF mode' = "map" THEN "Scattermapbox" ELSE "Scatter")
           /\ graph2'.kind = graph1'.kind
           /\ {q.p.idx : q \in Points(graph1')} = RowsOf(results_gdf, city1')
           /\ {q.p.idx : q \in Points(graph2')} = RowsOf(results_gdf, city2')]_vars

C9_Witness ==
    /\ pc = "serving"
    /\ invocations = 3
    /\ mode = "grid"
    /\ city1 # cities[1]
    /\ NumPoints(graph1) >= 1
    /\ NumPoints(graph2) >= 1

\* C10: for every dataset, location and view mode, every point of the figure comes
\* from a dataset record of that location and every such record is plotted once;
\* in map mode they form one point group.
C10_FilterCorrectness ==
    (Returned /\ mode \in {"map", "grid"}) =>
        /\ \A q \in Points(graph1) :
              /\ q.p.location = city1
              /\ \E k \in 1..Len(results_gdf.rows) :
                    /\ results_gdf.rows[k].idx = q.p.idx
                    /\ results_gdf.rows[k].location = city1
                    /\ results_gdf.rows[k].tree_cover_change = q.p.tree_cover_change
        /\ {q.p.idx : q \in Points(graph1)} = RowsOf(results_gdf, city1)
        /\ NumPoints(graph1) = Cardinality(RowsOf(results_gdf, city1))
        /\ mode = "map" =>
              /\ Len(graph1.traces) = 1
              /\ Len(graph1.traces[1].points) = Cardinality(RowsOf(results_gdf, city1))

C10_Witness ==
    /\ Returned
    /\ mode = "map"
    /\ NumPoints(graph1) >= 2
    /\ \E k \in 1..Len(results_gdf.rows) : results_gdf.rows[k].location # city1

=============================================================================
